---- MODULE Spec2Model ----
(***************************************************************************)
(* Model of bot.py: the Tradier request router (tradier_data_request,      *)
(* tradier_trade_request), the order builders (place_equity_order,         *)
(* place_option_order_by_occ), the confirmation policy                     *)
(* (needs_confirmation), the OCC helpers (build_occ,                       *)
(* _infer_underlying_from_occ) and the Google-Sheets audit logging         *)
(* (log_event, log_trade, _sheet_append_row).                              *)
(*                                                                         *)
(* Strings whose characters matter (upper(), lower(), isdigit(), slicing)  *)
(* are sequences of one-character strings.  Optional arguments are         *)
(* sequences of length 0 (None) or 1.  Prices are integers in cents; the   *)
(* float a payload carries is a fixed-point number (ToFloat).              *)
(* Strikes are integers in ten-thousandths of a unit.                      *)
(***************************************************************************)
EXTENDS Integers, Sequences, FiniteSets, TLC

\* ---------------------------------------------------------------- bounds
MaxQty == 1

\* ------------------------------------------------------- string helpers
LowerAlpha == <<"a","b","c","d","e","f","g","h","i","j","k","l","m",
                "n","o","p","q","r","s","t","u","v","w","x","y","z">>
UpperAlpha == <<"A","B","C","D","E","F","G","H","I","J","K","L","M",
                "N","O","P","Q","R","S","T","U","V","W","X","Y","Z">>
DigitChars == <<"0","1","2","3","4","5","6","7","8","9">>

\* str.upper() on one character
UpperCh(c) ==
    IF \E i \in 1..26 : LowerAlpha[i] = c
    THEN UpperAlpha[CHOOSE i \in 1..26 : LowerAlpha[i] = c]
    ELSE c

\* str.lower() on one character
LowerCh(c) ==
    IF \E i \in 1..26 : UpperAlpha[i] = c
    THEN LowerAlpha[CHOOSE i \in 1..26 : UpperAlpha[i] = c]
    ELSE c

upper(s) == [i \in 1..Len(s) |-> UpperCh(s[i])]
lower(s) == [i \in 1..Len(s) |-> LowerCh(s[i])]

\* str.isdigit() on one character
isdigit(c) == \E i \in 1..10 : DigitChars[i] = c

\* Python slice s[a:b] with 0-based a, exclusive b, clamped to the string
Slice(s, a, b) ==
    LET hi == IF b < Len(s) THEN b ELSE Len(s)
    IN  IF a >= hi THEN <<>> ELSE SubSeq(s, a + 1, hi)

\* decimal digits of a natural number, most significant first (str(n))
RECURSIVE IntDigits(_)
IntDigits(n) ==
    IF n < 10 THEN <<DigitChars[n + 1]>>
    ELSE Append(IntDigits(n \div 10), DigitChars[(n % 10) + 1])

\* format spec 08d for n >= 0: left-pad with zeros to width 8, never truncate
RECURSIVE ZeroPad(_, _)
ZeroPad(ds, width) ==
    IF Len(ds) >= width THEN ds ELSE ZeroPad(<<"0">> \o ds, width)

\* variant: the strike printed without zero padding
Format08dUnpadded(n) == IntDigits(n)

Format08d(n) == ZeroPad(IntDigits(n), 8)

\* int(round(float(strike) * 1000)) with strike in ten-thousandths;
\* round() is round-half-to-even
StrikeInt(strike) ==
    LET q == strike \div 10
        r == strike % 10
    IN  IF r < 5 THEN q
        ELSE IF r > 5 THEN q + 1
        ELSE IF q % 2 = 0 THEN q ELSE q + 1

\* ------------------------------------------------------------ OCC helper
build_occ(underlying, expiry_yyyymmdd, cp, strike) ==
    LET yy == Slice(expiry_yyyymmdd, 2, 4)
        mm == Slice(expiry_yyyymmdd, 4, 6)
        dd == Slice(expiry_yyyymmdd, 6, 8)
        cp_code == IF Len(cp) > 0 /\ lower(cp)[1] = "c" THEN "C" ELSE "P"
        strike_int == StrikeInt(strike)
    IN  upper(underlying) \o yy \o mm \o dd \o <<cp_code>> \o Format08d(strike_int)

infer_underlying_from_occ(occ) ==
    IF \E i \in 1..Len(occ) : isdigit(occ[i])
    THEN LET i == CHOOSE k \in 1..Len(occ) :
                     /\ isdigit(occ[k])
                     /\ \A j \in 1..(k - 1) : ~isdigit(occ[j])
         IN  upper(Slice(occ, 0, i - 1))
    ELSE upper(Slice(occ, 0, 4))

\* --------------------------------------------------------- policy toggle
\* variant: the conditional flag is not consulted
needs_confirmation_ignores_conditional(order_type, is_conditional, REQUIRE_CONFIRM_MARKET_ONLY) ==
    IF ~REQUIRE_CONFIRM_MARKET_ONLY THEN TRUE
    ELSE lower(order_type) = <<"m","a","r","k","e","t">>

\* variant: the strict-mode toggle is not consulted
needs_confirmation_ignores_toggle(order_type, is_conditional, REQUIRE_CONFIRM_MARKET_ONLY) ==
    IF is_conditional THEN FALSE
    ELSE lower(order_type) = <<"m","a","r","k","e","t">>

needs_confirmation(order_type, is_conditional, REQUIRE_CONFIRM_MARKET_ONLY) ==
    IF ~REQUIRE_CONFIRM_MARKET_ONLY THEN TRUE
    ELSE IF is_conditional THEN FALSE
    ELSE lower(order_type) = <<"m","a","r","k","e","t">>

\* ------------------------------------------------------- input alphabets
sMarket == <<"m","a","r","k","e","t">>
sLimit == <<"l","i","m","i","t">>
sStop == <<"s","t","o","p">>
sStopLimit == <<"s","t","o","p","_","l","i","m","i","t">>
OrderTypes == {sMarket, sLimit, sStop, sStopLimit,
               <<"M","a","r","k","e","t">>, <<"m","o","c">>}
KnownTypes == {sMarket, sLimit, sStop, sStopLimit}

Quantities == 0..MaxQty
LimitArgs == {<<>>, <<10000>>}
StopArgs == {<<>>, <<9500>>}
SlippageBps == {0, 50}
EquitySymbols == {<<"a","m","d">>}
Sessions == {<<"R","E","G">>, <<"p","r","e">>}
OccSymbols == {<<"A","M","D","2","5","0","8","2","2","C","0","0","1","8","5","0","0","0">>}
UnderlyingArgs == {<<>>, <<<<"A","M","D">>>>}

Tickers == {<<"A","M","D">>, <<"a","m","d">>, <<"F">>, <<"B","R","K","1">>, <<>>}
Expiries == {<<"2","0","2","5","0","8","2","2">>, <<"2","0","2","6","0","1","1","6">>}
OptionKinds == {<<"c","a","l","l">>, <<"p","u","t">>, <<"C","a","l","l">>}
Strikes == {0, 5000, 1850000, 1850004, 1850006, 999999990, 1000000000}

DataEndpoints == {"/markets/quotes", "/markets/options/chains", "/markets/history"}
OrdersEndpoint == "/accounts/{TRADE_ACCT}/orders"
PositionsEndpoint == "/accounts/{TRADE_ACCT}/positions"

JsonBody == "{\"order\": {\"id\": 1, \"status\": \"ok\"}}"
HtmlBody == "<html>gateway</html>"
ErrorBody == "Invalid parameter"
Statuses == {200, 400, 500}
Bodies == {JsonBody, HtmlBody, ErrorBody}
TransportErrors == {"Timeout", "ConnectionError"}

\* ---------------------------------------------------------- HTTP helpers
\* requests.Response.ok
ResponseOk(r) == r.status < 400

\* requests.Response.json(): the parsed body, or a decode error
ResponseJson(r) ==
    IF r.text = JsonBody
    THEN [ok |-> TRUE, val |-> [order |-> [id |-> 1, status |-> "ok"]]]
    ELSE [ok |-> FALSE, val |-> <<>>]

\* variant: the body text is left out of the message
ErrorMessageNoBody(client, r) ==
    <<"Tradier ", client, " ", ToString(r.status), ": ", "">>

\* f"Tradier {client} {r.status_code}: {r.text}"
ErrorMessage(client, r) ==
    <<"Tradier ", client, " ", ToString(r.status), ": ", r.text>>

\* ------------------------------------------------------------ audit sink
EVENTS_TAB == "Events"
TRADES_TAB == "Trades"

\* json.dumps(payload) unless the payload is already a string
JsonDumps(payload) == <<"json", payload>>

\* variant: the final append is not guarded by the try
sheet_append_row_unguarded(sheets_ok, fault) ==
    IF ~sheets_ok THEN "False"
    ELSE IF fault = "append_row" THEN "raised"
    ELSE IF fault # "none" THEN "False"
    ELSE "True"

\* _sheet_append_row: "True" (row appended), "False" (sink off or the
\* append failed inside the try), never an exception.  fault names where
\* the gspread calls fail: "none", "worksheet" (opening/creating the tab),
\* "append_row" (the final append).
sheet_append_row(sheets_ok, fault) ==
    IF ~sheets_ok THEN "False"
    ELSE IF fault # "none" THEN "False"
    ELSE "True"

\* _ws after _sheet_append_row: the tab is cached once it has been opened
WsAfter(cache, sheets_ok, tab, fault) ==
    IF sheets_ok /\ fault # "worksheet" THEN cache \cup {tab} ELSE cache

\* faults the sink can show for a tab: a cached tab is not opened again
Faults(cache, sheets_ok, tab) ==
    IF ~sheets_ok THEN {"none"}
    ELSE IF tab \in cache THEN {"none", "append_row"}
    ELSE {"none", "worksheet", "append_row"}

\* variant: an 'in' event is written twice
log_event_repeats_in(tr, kind, direction, actor, payload, appended) ==
    LET e == [ev |-> "audit", kind |-> kind, direction |-> direction,
              actor |-> actor, data |-> <<"json", payload>>,
              stored |-> (appended = "True")]
    IN  IF direction = "in" THEN tr \o <<e, e>> ELSE Append(tr, e)

\* the record of one log_event call in the call's trace
log_event(tr, kind, direction, actor, payload, appended) ==
    Append(tr, [ev |-> "audit", kind |-> kind, direction |-> direction,
                actor |-> actor, data |-> JsonDumps(payload),
                stored |-> (appended = "True")])

\* the record of one log_trade call in the call's trace
log_trade(tr, action, symbol, qty, details, appended) ==
    Append(tr, [ev |-> "audit", kind |-> "trade", direction |-> action,
                actor |-> symbol,
                data |-> <<qty, JsonDumps(details)>>,
                stored |-> (appended = "True")])

\* the record of one requests.request call in the call's trace
HttpDispatch(tr, client, request) ==
    Append(tr, [ev |-> "http", kind |-> "http", direction |-> "exchange",
                actor |-> client, data |-> request, stored |-> FALSE])

\* --------------------------------------------------------- order builder
\* float(x) for x in cents: payload floats are fixed-point numbers in
\* ten-thousandths of a cent
ToFloat(x) == x * 10000

\* variant: the basis points are added to the price instead of scaling it
SlippagePriceAdditive(limit, bps) ==
    IF bps # 0 THEN limit * 10000 + bps ELSE limit * 10000

\* float(limit) * (1 + EXTENDED_LIMIT_SLIPPAGE_BPS/10000.0) when the bps
\* setting is truthy, float(limit) otherwise
SlippagePrice(limit, bps) ==
    IF bps # 0 THEN limit * (10000 + bps) ELSE ToFloat(limit)

NoField == [x \in {} |-> 0]

\* variant: the toggle only fills in a session the caller left at REG
equity_payload_soft_toggle(symbol, side, quantity, type, limit, session, config) ==
    [class |-> "equity", symbol |-> upper(symbol), side |-> side,
     quantity |-> quantity, type |-> lower(type), duration |-> "day",
     session |-> IF config.EXTENDED_STOCK_ENABLED /\ upper(session) = <<"R","E","G">>
                 THEN <<"E","X","T">>
                 ELSE upper(session)]
    @@ (IF limit # <<>> /\ lower(type) \in {<<"l","i","m","i","t">>,
                                            <<"s","t","o","p","_","l","i","m","i","t">>}
        THEN [price |-> IF config.EXTENDED_LIMIT_SLIPPAGE_BPS # 0
                        THEN limit[1] * (10000 + config.EXTENDED_LIMIT_SLIPPAGE_BPS)
                        ELSE limit[1] * 10000]
        ELSE [x \in {} |-> 0])

equity_payload(symbol, side, quantity, type, limit, session, config) ==
    [class |-> "equity", symbol |-> upper(symbol), side |-> side,
     quantity |-> quantity, type |-> lower(type), duration |-> "day",
     session |-> IF config.EXTENDED_STOCK_ENABLED THEN <<"E","X","T">>
                 ELSE upper(session)]
    @@ (IF limit # <<>> /\ lower(type) \in {sLimit, sStopLimit}
        THEN [price |-> SlippagePrice(limit[1], config.EXTENDED_LIMIT_SLIPPAGE_BPS)]
        ELSE NoField)

option_payload(occ, side, qty, type, limit, stop, underlying, config) ==
    [class |-> "option",
     symbol |-> IF underlying # <<>> /\ underlying[1] # <<>> THEN underlying[1]
                ELSE infer_underlying_from_occ(occ),
     option_symbol |-> occ, side |-> side, quantity |-> qty,
     type |-> lower(type), duration |-> "day"]
    @@ (IF limit # <<>> /\ lower(type) \in {sLimit, sStopLimit}
        THEN [price |-> SlippagePrice(limit[1], config.EXTENDED_LIMIT_SLIPPAGE_BPS)]
        ELSE NoField)
    @@ (IF stop # <<>> /\ lower(type) \in {sStop, sStopLimit}
        THEN [stop |-> ToFloat(stop[1])]
        ELSE NoField)

\* ------------------------------------------------------------------ state
VARIABLES
    config,   \* module-level settings read from the environment at import
    ws,       \* _ws: worksheet tabs cached by _sheet_append_row
    pc,       \* position of the running call
    call,     \* the running call: function and arguments
    payload,  \* the order payload built by the running call
    request,  \* the request handed to the router
    resp,     \* outcome of requests.request
    res,      \* js / res: the parsed body the router hands back
    trace,    \* side effects of the running call, in order
    result    \* what the call returned or raised

vars == <<config, ws, pc, call, payload, request, resp, res, trace, result>>

NoCall == [fn |-> "none"]
NoRequest == [client |-> "none"]
NoResp == [kind |-> "none"]
NoResult == [type |-> "none"]

Init ==
    /\ config \in [REQUIRE_CONFIRM_MARKET_ONLY : BOOLEAN,
                   EXTENDED_STOCK_ENABLED : BOOLEAN,
                   EXTENDED_LIMIT_SLIPPAGE_BPS : SlippageBps,
                   sheets_ok : BOOLEAN]
    /\ ws = {}
    /\ pc = "idle"
    /\ call = NoCall
    /\ payload = NoField
    /\ request = NoRequest
    /\ resp = NoResp
    /\ res = NoField
    /\ trace = <<>>
    /\ result = NoResult


OrderCalls == {"place_equity_order", "place_option_order_by_occ"}
RouterCalls == OrderCalls \cup {"tradier_data_request", "get_positions"}

\* an exception escaping an audit call ends the call with that exception
AuditRaised == [type |-> "AuditSinkUnavailable"]

\* ---------------------------------------------------------- entry points
place_equity_order(symbol, side, quantity, type, limit, session, is_conditional) ==
    /\ pc = "idle"
    /\ call' = [fn |-> "place_equity_order", symbol |-> symbol, side |-> side,
                quantity |-> quantity, type |-> type, limit |-> limit,
                stop |-> <<>>, session |-> session,
                is_conditional |-> is_conditional]
    /\ pc' = "build"
    /\ UNCHANGED <<config, ws, payload, request, resp, res, trace, result>>

place_option_order_by_occ(occ, side, qty, type, limit, stop, underlying, is_conditional) ==
    /\ pc = "idle"
    /\ call' = [fn |-> "place_option_order_by_occ", symbol |-> occ, side |-> side,
                quantity |-> qty, type |-> type, limit |-> limit,
                stop |-> stop, underlying |-> underlying,
                is_conditional |-> is_conditional]
    /\ pc' = "build"
    /\ UNCHANGED <<config, ws, payload, request, resp, res, trace, result>>

\* get_equity_quote / get_option_chain / get_history
tradier_data_request(endpoint) ==
    /\ pc = "idle"
    /\ call' = [fn |-> "tradier_data_request", endpoint |-> endpoint]
    /\ request' = [client |-> "DATA", endpoint |-> endpoint, method |-> "GET",
                   data |-> NoField]
    /\ pc' = "out"
    /\ UNCHANGED <<config, ws, payload, resp, res, trace, result>>

get_positions ==
    /\ pc = "idle"
    /\ call' = [fn |-> "get_positions"]
    /\ request' = [client |-> "TRADE", endpoint |-> PositionsEndpoint,
                   method |-> "GET", data |-> NoField]
    /\ pc' = "out"
    /\ UNCHANGED <<config, ws, payload, resp, res, trace, result>>

\* ------------------------------------------------- order builder, steps
\* lines 220-240 / 249-263: policy note, then the payload
BuildOrder ==
    /\ pc = "build"
    /\ LET confirm == needs_confirmation(call.type, call.is_conditional,
                                         config.REQUIRE_CONFIRM_MARKET_ONLY)
           built == IF call.fn = "place_equity_order"
                    THEN equity_payload(call.symbol, call.side, call.quantity,
                                        call.type, call.limit, call.session, config)
                    ELSE option_payload(call.symbol, call.side, call.quantity,
                                        call.type, call.limit, call.stop,
                                        call.underlying, config)
           proceed == /\ payload' = built
                      /\ request' = [client |-> "TRADE", endpoint |-> OrdersEndpoint,
                                     method |-> "POST", data |-> built]
                      /\ pc' = "out"
                      /\ result' = result
       IN  IF confirm
           THEN \E fault \in Faults(ws, config.sheets_ok, EVENTS_TAB) :
                  LET appended == sheet_append_row(config.sheets_ok, fault)
                  IN  /\ ws' = WsAfter(ws, config.sheets_ok, EVENTS_TAB, fault)
                      /\ IF appended = "raised"
                         THEN /\ result' = AuditRaised
                              /\ pc' = "done"
                              /\ UNCHANGED <<payload, request, trace>>
                         ELSE /\ trace' = log_event(trace, "policy", "out", "bot",
                                                    [confirm_required |-> TRUE,
                                                     symbol |-> call.symbol],
                                                    appended)
                              /\ proceed
           ELSE /\ UNCHANGED <<ws, trace>>
                /\ proceed
    /\ UNCHANGED <<config, call, resp, res>>

\* ------------------------------------------------------- router, steps
\* lines 166 / 182: the 'out' audit event
RouterLogOut ==
    /\ pc = "out"
    /\ \E fault \in Faults(ws, config.sheets_ok, EVENTS_TAB) :
         LET appended == sheet_append_row(config.sheets_ok, fault)
         IN  /\ ws' = WsAfter(ws, config.sheets_ok, EVENTS_TAB, fault)
             /\ IF appended = "raised"
                THEN /\ result' = AuditRaised
                     /\ pc' = "done"
                     /\ UNCHANGED trace
                ELSE /\ trace' = log_event(trace, "broker", "out", "bot",
                                           request, appended)
                     /\ pc' = "http"
                     /\ UNCHANGED result
    /\ UNCHANGED <<config, call, payload, request, resp, res>>

\* lines 167 / 183: requests.request raises (timeout, connection failure)
HttpTransportFailure ==
    /\ pc = "http"
    /\ \E e \in TransportErrors :
         /\ resp' = [kind |-> "transport", error |-> e]
         /\ result' = [type |-> e]
    /\ trace' = HttpDispatch(trace, request.client, request)
    /\ pc' = "done"
    /\ UNCHANGED <<config, ws, call, payload, request, res>>

\* lines 167 / 183: requests.request returns a response
HttpResponse ==
    /\ pc = "http"
    /\ \E st \in Statuses, body \in Bodies :
         /\ resp' = [kind |-> "http", status |-> st, text |-> body]
         /\ pc' = IF ResponseOk(resp') THEN "ok" ELSE "not_ok"
    /\ trace' = HttpDispatch(trace, request.client, request)
    /\ UNCHANGED <<config, ws, call, payload, request, res, result>>

\* lines 168-170 / 184-186: 'in' audit event with status and body, raise
RouterNotOk ==
    /\ pc = "not_ok"
    /\ \E fault \in Faults(ws, config.sheets_ok, EVENTS_TAB) :
         LET appended == sheet_append_row(config.sheets_ok, fault)
         IN  /\ ws' = WsAfter(ws, config.sheets_ok, EVENTS_TAB, fault)
             /\ IF appended = "raised"
                THEN /\ result' = AuditRaised
                     /\ UNCHANGED trace
                ELSE /\ trace' = log_event(trace, "broker", "in", "tradier",
                                           [status |-> resp.status, body |-> resp.text],
                                           appended)
                     /\ result' = [type |-> "RuntimeError",
                                   msg |-> ErrorMessage(request.client, resp)]
    /\ pc' = "done"
    /\ UNCHANGED <<config, call, payload, request, resp, res>>

\* lines 171-173 / 187-189: parse, 'in' audit event, return js
RouterOk ==
    /\ pc = "ok"
    /\ LET js == ResponseJson(resp)
       IN  IF ~js.ok
           THEN /\ result' = [type |-> "JSONDecodeError"]
                /\ pc' = "done"
                /\ UNCHANGED <<ws, trace, res>>
           ELSE \E fault \in Faults(ws, config.sheets_ok, EVENTS_TAB) :
                  LET appended == sheet_append_row(config.sheets_ok, fault)
                  IN  /\ ws' = WsAfter(ws, config.sheets_ok, EVENTS_TAB, fault)
                      /\ IF appended = "raised"
                         THEN /\ result' = AuditRaised
                              /\ pc' = "done"
                              /\ UNCHANGED <<trace, res>>
                         ELSE /\ trace' = log_event(trace, "broker", "in", "tradier",
                                                    js.val, appended)
                              /\ res' = js.val
                              /\ IF call.fn \in OrderCalls
                                 THEN /\ pc' = "log_trade"
                                      /\ UNCHANGED result
                                 ELSE /\ pc' = "done"
                                      /\ result' = [type |-> "return", val |-> js.val]
    /\ UNCHANGED <<config, call, payload, request, resp>>

\* lines 242-243 / 265-266: the trade row, then return res
LogTrade ==
    /\ pc = "log_trade"
    /\ \E fault \in Faults(ws, config.sheets_ok, TRADES_TAB) :
         LET appended == sheet_append_row(config.sheets_ok, fault)
         IN  /\ ws' = WsAfter(ws, config.sheets_ok, TRADES_TAB, fault)
             /\ IF appended = "raised"
                THEN /\ result' = AuditRaised
                     /\ UNCHANGED trace
                ELSE /\ trace' = log_trade(trace, call.side, call.symbol,
                                           call.quantity, res, appended)
                     /\ result' = [type |-> "return", val |-> res]
    /\ pc' = "done"
    /\ UNCHANGED <<config, call, payload, request, resp, res>>

\* the caller takes the result; the next call starts from a clean frame
Return ==
    /\ pc = "done"
    /\ pc' = "idle"
    /\ call' = NoCall
    /\ payload' = NoField
    /\ request' = NoRequest
    /\ resp' = NoResp
    /\ res' = NoField
    /\ trace' = <<>>
    /\ result' = NoResult
    /\ UNCHANGED <<config, ws>>

\* ------------------------------------------------ pure helpers, as calls
BuildOcc(underlying, expiry, cp, strike) ==
    /\ pc = "idle"
    /\ call' = [fn |-> "build_occ", underlying |-> underlying, expiry |-> expiry,
                cp |-> cp, strike |-> strike]
    /\ result' = [type |-> "return",
                  val |-> build_occ(underlying, expiry, cp, strike)]
    /\ pc' = "done"
    /\ UNCHANGED <<config, ws, payload, request, resp, res, trace>>

NeedsConfirmation(order_type, is_conditional) ==
    /\ pc = "idle"
    /\ call' = [fn |-> "needs_confirmation", type |-> order_type,
                is_conditional |-> is_conditional]
    /\ result' = [type |-> "return",
                  val |-> needs_confirmation(order_type, is_conditional,
                                             config.REQUIRE_CONFIRM_MARKET_ONLY)]
    /\ pc' = "done"
    /\ UNCHANGED <<config, ws, payload, request, resp, res, trace>>

Next ==
    \/ \E symbol \in EquitySymbols, side \in {"buy", "sell"}, quantity \in Quantities,
          type \in OrderTypes, limit \in LimitArgs, session \in Sessions,
          is_conditional \in BOOLEAN :
         place_equity_order(symbol, side, quantity, type, limit, session, is_conditional)
    \/ \E occ \in OccSymbols, qty \in Quantities, type \in OrderTypes,
          limit \in LimitArgs, stop \in StopArgs, underlying \in UnderlyingArgs,
          is_conditional \in BOOLEAN :
         place_option_order_by_occ(occ, "buy_to_open", qty, type, limit, stop,
                                   underlying, is_conditional)
    \/ \E endpoint \in DataEndpoints : tradier_data_request(endpoint)
    \/ get_positions
    \/ BuildOrder
    \/ RouterLogOut
    \/ HttpTransportFailure
    \/ HttpResponse
    \/ RouterNotOk
    \/ RouterOk
    \/ LogTrade
    \/ Return
    \/ \E underlying \in Tickers, expiry \in Expiries, cp \in OptionKinds,
          strike \in Strikes :
         BuildOcc(underlying, expiry, cp, strike)
    \/ \E order_type \in OrderTypes, is_conditional \in BOOLEAN :
         NeedsConfirmation(order_type, is_conditional)

Spec == Init /\ [][Next]_vars

\* ================================================================ claims
IsBrokerOut(e) == e.ev = "audit" /\ e.kind = "broker" /\ e.direction = "out"
IsBrokerIn(e) == e.ev = "audit" /\ e.kind = "broker" /\ e.direction = "in"
IsPolicy(e) == e.ev = "audit" /\ e.kind = "policy"
IsHttp(e) == e.ev = "http"
IsRouterEntry(e) == IsBrokerOut(e) \/ IsBrokerIn(e) \/ IsHttp(e)

\* the router's own side effects of the running call, in order
RouterTrace == SelectSeq(trace, IsRouterEntry)
Dispatches == Len(SelectSeq(trace, IsHttp))

\* out event, then the HTTP exchange, then one in event, and nothing else
OutExchangeIn ==
    /\ Len(RouterTrace) = 3
    /\ IsBrokerOut(RouterTrace[1])
    /\ IsHttp(RouterTrace[2])
    /\ IsBrokerIn(RouterTrace[3])

\* C1: a router call that succeeds has emitted exactly one 'out' audit
\* event before the HTTP exchange and exactly one 'in' audit event after
\* it, and returns the parsed response as the exchange delivered it.
C1_SuccessOutThenIn ==
    (pc = "done" /\ call.fn \in RouterCalls /\ result.type = "return") =>
        /\ OutExchangeIn
        /\ resp.kind = "http" /\ resp.text = JsonBody
        /\ result.val = [order |-> [id |-> 1, status |-> "ok"]]
        /\ RouterTrace[3].data = <<"json", result.val>>

C1_Witness ==
    /\ pc = "done" /\ call.fn = "tradier_data_request"
    /\ result.type = "return" /\ Len(trace) = 3

\* C2: on a non-success status the router emits an 'in' audit event with
\* the status and the raw body, then raises an error carrying the status
\* code and the body text unaltered; nothing is returned and the request
\* is dispatched once only.
C2_NonSuccessRaises ==
    (pc = "done" /\ call.fn \in RouterCalls /\ resp.kind = "http" /\ resp.status >= 400) =>
        /\ OutExchangeIn
        /\ RouterTrace[3].data = <<"json", [status |-> resp.status, body |-> resp.text]>>
        /\ result.type = "RuntimeError"
        /\ result.msg[4] = ToString(resp.status)
        /\ result.msg[6] = resp.text
        /\ Dispatches = 1

C2_Witness ==
    /\ pc = "done" /\ call.fn = "place_equity_order"
    /\ resp.kind = "http" /\ resp.status = 400 /\ resp.text = ErrorBody
    /\ result.type = "RuntimeError"

\* the intent invariants of the order builder's input
InvalidIntent ==
    \/ call.quantity <= 0
    \/ call.type \notin KnownTypes
    \/ call.type \in {sLimit, sStopLimit} /\ call.limit = <<>>
    \/ call.type \in {sStop, sStopLimit} /\ call.stop = <<>>

\* C3: an order build whose intent violates the invariants fails with
\* InvalidOrderIntent before anything is sent: no broker 'out' audit event
\* and no HTTP request for that call.
C3_InvalidIntentNeverSent ==
    (call.fn \in OrderCalls /\ InvalidIntent) =>
        /\ Len(RouterTrace) = 0
        /\ (pc = "done" => result.type = "InvalidOrderIntent")

\* C4: needs_confirmation is true for every type and flag when strict mode
\* is off; otherwise false for a conditional order; otherwise true for
\* market and false for limit, stop and stop_limit.
C4_ConfirmationTable ==
    (pc = "done" /\ call.fn = "needs_confirmation") =>
        /\ ~config.REQUIRE_CONFIRM_MARKET_ONLY => result.val = TRUE
        /\ (config.REQUIRE_CONFIRM_MARKET_ONLY /\ call.is_conditional)
              => result.val = FALSE
        /\ (config.REQUIRE_CONFIRM_MARKET_ONLY /\ ~call.is_conditional
              /\ call.type = sMarket) => result.val = TRUE
        /\ (config.REQUIRE_CONFIRM_MARKET_ONLY /\ ~call.is_conditional
              /\ call.type \in {sLimit, sStop, sStopLimit}) => result.val = FALSE

C4_Witness ==
    /\ pc = "done" /\ call.fn = "needs_confirmation"
    /\ config.REQUIRE_CONFIRM_MARKET_ONLY /\ call.is_conditional
    /\ call.type = sMarket /\ result.val = FALSE

\* the cases in which the policy asks for confirmation
ConfirmationRequired ==
    \/ ~config.REQUIRE_CONFIRM_MARKET_ONLY
    \/ ~call.is_conditional /\ call.type = sMarket

\* C5: in an order build where confirmation is required, a 'policy' audit
\* event is emitted before the broker 'out' event, and the build goes on:
\* the order is dispatched to the trade endpoint in the same call.
C5_PassivePolicy ==
    (call.fn \in OrderCalls /\ ConfirmationRequired /\ pc # "build") =>
        /\ Len(trace) >= 1 /\ IsPolicy(trace[1])
        /\ \A i \in 2..Len(trace) : ~IsPolicy(trace[i])
        /\ pc # "done" => result.type = "none"
        /\ pc = "done" =>
              /\ Dispatches = 1
              /\ IsBrokerOut(trace[2])
              /\ IsHttp(trace[3])
              /\ trace[3].actor = "TRADE"
              /\ trace[3].data.endpoint = OrdersEndpoint
              /\ trace[3].data.method = "POST"

C5_Witness ==
    /\ pc = "done" /\ call.fn = "place_option_order_by_occ"
    /\ config.REQUIRE_CONFIRM_MARKET_ONLY /\ call.type = sMarket
    /\ ~call.is_conditional
    /\ IsPolicy(trace[1]) /\ result.type = "return"

C7_SlippageOnLimitOnly ==
    (call.fn \in OrderCalls /\ pc \notin {"idle", "build"}) =>
        /\ (call.type \in {sLimit, sStopLimit} /\ call.limit # <<>>) =>
              /\ "price" \in DOMAIN payload
              /\ payload.price = call.limit[1] * 10000
                                 + call.limit[1] * config.EXTENDED_LIMIT_SLIPPAGE_BPS
              /\ config.EXTENDED_LIMIT_SLIPPAGE_BPS = 0 =>
                    payload.price = call.limit[1] * 10000
        /\ "stop" \in DOMAIN payload => payload.stop = call.stop[1] * 10000
        /\ (call.fn = "place_option_order_by_occ" /\ call.stop # <<>>
              /\ call.type \in {sStop, sStopLimit}) => "stop" \in DOMAIN payload
        /\ call.type \in {sMarket, sStop} => "price" \notin DOMAIN payload

C7_Witness ==
    /\ pc = "done" /\ call.fn = "place_option_order_by_occ"
    /\ call.type = sStopLimit /\ call.limit = <<10000>> /\ call.stop = <<9500>>
    /\ config.EXTENDED_LIMIT_SLIPPAGE_BPS = 50
    /\ payload.price = 100500000 /\ payload.stop = 95000000

\* what the call yields when only the broker's answer is looked at
BrokerOutcome ==
    IF resp.kind = "transport" THEN [type |-> resp.error]
    ELSE IF resp.status >= 400
    THEN [type |-> "RuntimeError",
          msg |-> <<"Tradier ", request.client, " ", ToString(resp.status), ": ", resp.text>>]
    ELSE IF resp.text # JsonBody THEN [type |-> "JSONDecodeError"]
    ELSE [type |-> "return", val |-> [order |-> [id |-> 1, status |-> "ok"]]]

\* C8: audit logging never blocks a call: whatever the sink does at the
\* policy, 'out', 'in' and trade-row points, no audit error reaches the
\* caller, the request is still dispatched, and the result or broker error
\* is the one the broker's answer alone determines.
C8_AuditBestEffort ==
    /\ result.type # "AuditSinkUnavailable"
    /\ (pc = "done" /\ call.fn \in RouterCalls) =>
          /\ Dispatches = 1
          /\ result = BrokerOutcome

C8_Witness ==
    /\ pc = "done" /\ call.fn = "place_equity_order"
    /\ config.sheets_ok
    /\ Len(trace) = 5
    /\ \A i \in {1, 2, 4, 5} : ~trace[i].stored
    /\ result.type = "return"

\* C9: every router call that fails after dispatch (non-success status or
\* transport failure) has out event, exchange, in event in that order
\* before the failure, and the failure is the router's broker error.
C9_FailureStillLogsIn ==
    (pc = "done" /\ call.fn \in RouterCalls /\ Dispatches >= 1
        /\ (resp.kind = "transport" \/ resp.status >= 400)) =>
        /\ OutExchangeIn
        /\ result.type = "RuntimeError"

IsUpperAlnum(str) ==
    \A i \in 1..Len(str) :
        \/ \E k \in 1..26 : UpperAlpha[k] = str[i]
        \/ \E k \in 1..10 : DigitChars[k] = str[i]
IsUpperAlpha(str) ==
    \A i \in 1..Len(str) : \E k \in 1..26 : UpperAlpha[k] = str[i]

DigitValue(c) == (CHOOSE k \in 1..10 : DigitChars[k] = c) - 1
RECURSIVE DigitsValue(_)
DigitsValue(ds) ==
    IF Len(ds) = 0 THEN 0
    ELSE 10 * DigitsValue(SubSeq(ds, 1, Len(ds) - 1)) + DigitValue(ds[Len(ds)])

\* the fixed-width reading of an OCC string: ticker, YYMMDD, C|P, and the
\* last eight characters as the strike in thousandths
OccRoundTrip(occ, u, e, kind, strike) ==
    LET n == Len(u)
    IN  /\ Len(occ) = n + 15
        /\ SubSeq(occ, 1, n) = u
        /\ SubSeq(occ, n + 1, n + 6) = SubSeq(e, 3, 8)
        /\ occ[n + 7] = (IF kind[1] \in {"c", "C"} THEN "C" ELSE "P")
        /\ \A i \in (n + 8)..(n + 15) : \E k \in 1..10 : DigitChars[k] = occ[i]
        /\ DigitsValue(SubSeq(occ, n + 8, n + 15)) * 10 = strike
        /\ infer_underlying_from_occ(occ) = u

\* C10 as stated: for every uppercase alphanumeric ticker and every strike
\* exact in thousandths, the OCC string is TICKER YYMMDD C|P and 8 strike
\* digits, and reading it back (inferring the underlying included) gives
\* the inputs.
C10_RoundTripAlnum ==
    (pc = "done" /\ call.fn = "build_occ" /\ IsUpperAlnum(call.underlying)
        /\ call.strike % 10 = 0) =>
        OccRoundTrip(result.val, call.underlying, call.expiry, call.cp, call.strike)

\* C10 amended: the same for tickers of uppercase letters only and strikes
\* below 100000.
C10_RoundTripAlpha ==
    (pc = "done" /\ call.fn = "build_occ" /\ IsUpperAlpha(call.underlying)
        /\ call.strike % 10 = 0 /\ call.strike < 1000000000) =>
        OccRoundTrip(result.val, call.underlying, call.expiry, call.cp, call.strike)

C10_Witness ==
    /\ pc = "done" /\ call.fn = "build_occ"
    /\ call.underlying = <<"A","M","D">> /\ call.strike = 1850000
    /\ call.cp = <<"c","a","l","l">>
    /\ call.expiry = <<"2","0","2","5","0","8","2","2">>
    /\ result.val = <<"A","M","D","2","5","0","8","2","2","C",
                      "0","0","1","8","5","0","0","0">>

====
